---- MODULE Spec2Model ----
(***************************************************************************)
(* The reflections journal of src/mysite/flask_app.py (the "hardened"      *)
(* variant) and src/flask_app.py (the "basic" variant): a JSON file holding *)
(* an array of reflections, and the three API handlers get_reflections,    *)
(* add_reflection and delete_reflection over it.                           *)
(*                                                                         *)
(* A Python str is a sequence of characters; a JSON value met in a request *)
(* body is a record [t, s]: t = "str" with its characters s, t = "num" for  *)
(* any value that is not a string (a number, null, a list: none has        *)
(* .strip()), t = "absent" for a key the body does not hold.               *)
(***************************************************************************)
EXTENDS Integers, Sequences, FiniteSets, TLC

VARIABLES
    variant,    \* which source file runs: "hardened" or "basic"
    file,       \* DATA_FILE on disk
    today,      \* the server clock: index into Dates
    last,       \* the request served last by the synchronous server, with its response
    pc,         \* concurrent workers: each worker's position in its handler
    job,        \* concurrent workers: the request a worker serves
    reflections,\* concurrent workers: the handler's local list `reflections`
    loaded,     \* concurrent workers: what load_reflections() returned to the handler
    dirty,      \* concurrent workers: another writer wrote while this one held the file open
    lastWriter  \* concurrent workers: the worker whose save_reflections finished last

vars == <<variant, file, today, last, pc, job, reflections, loaded, dirty, lastWriter>>

seqVars == <<variant, file, today, last>>
concVars == <<pc, job, reflections, loaded, dirty, lastWriter>>

-----------------------------------------------------------------------------
(* Bounds of the model *)

\* the deep-store specifications accept a create only while the store holds fewer entries
MaxStore == 3
\* the rich-input specification accepts a create only while the store holds fewer entries
MaxInputStore == 1
\* the concurrent specification accepts a create only while stored + in-flight creates is below
MaxConcStore == 2

-----------------------------------------------------------------------------
(* Strings and JSON values *)

Variants == {"hardened", "basic"}

\* the characters str.strip() removes
Whitespace == {" ", "\t", "\n"}

RECURSIVE LStrip(_)
LStrip(s) ==
    IF s = <<>> THEN <<>>
    ELSE IF Head(s) \in Whitespace THEN LStrip(Tail(s)) ELSE s

RECURSIVE RStrip(_)
RStrip(s) ==
    IF s = <<>> THEN <<>>
    ELSE IF s[Len(s)] \in Whitespace THEN RStrip(SubSeq(s, 1, Len(s) - 1)) ELSE s

\* a faulty variant of Strip: strips the left end only
StripLeftOnly(s) == LStrip(s)

\* str.strip()
Strip(s) == RStrip(LStrip(s))

JAbsent == [t |-> "absent", s |-> <<>>]
JNum == [t |-> "num", s |-> <<>>]
JStr(s) == [t |-> "str", s |-> s]

Anonymous == <<"A", "n", "o", "n", "y", "m", "o", "u", "s">>

\* the strings a caller sends: empty, blank, plain, padded, with inner whitespace
InputStrings ==
    { <<>>, <<" ">>, <<"a">>, <<" ", "a", " ">>, <<"\t", "a", " ", "b", "\n">> }

FieldValues == {JAbsent, JNum} \cup {JStr(s) : s \in InputStrings}

\* what datetime.now().strftime("%a %b %d %Y") yields on the days of a run
Dates == << <<"Sun Nov 01 2026">>, <<"Mon Nov 02 2026">> >>

DateStr(d) == JStr(Dates[d])

\* a `date` the caller puts in the body
CallerDate == JStr(<<"Fri Jan 01 1999">>)

Entry(n, d, r) == [name |-> n, date |-> d, reflection |-> r]
NoEntry == Entry(JAbsent, JAbsent, JAbsent)

-----------------------------------------------------------------------------
(* Request bodies of POST /api/reflections *)

\* kind "none": no body, or a Content-Type that is not JSON
\* kind "malformed": a JSON Content-Type with text that does not parse
\* kind "falsy": parsed JSON for which `not data` holds: {}, [], 0, "", false, null
\* kind "nonobject": a truthy JSON value that is no object: [1], 7, "x", true
\* kind "object": a JSON object; the keys other than name, date, reflection are never read
Body(k, n, d, r) == [kind |-> k, name |-> n, date |-> d, reflection |-> r]
BadBodies == {Body(k, JAbsent, JAbsent, JAbsent) : k \in {"nonobject", "malformed", "falsy", "none"}}
NoBody == Body("none", JAbsent, JAbsent, JAbsent)

\* every object over the field values
ObjectBodies ==
    {Body("object", n, d, r) : n \in FieldValues, d \in {JAbsent, CallerDate}, r \in FieldValues}

\* a few objects, for the specifications about the store
StoreBodies ==
    { Body("object", JAbsent, JAbsent, JStr(<<"a">>)),
      Body("object", JStr(<<" ", "a", " ">>), CallerDate, JStr(<<" ", "a", " ">>)),
      Body("object", JStr(<<" ">>), JAbsent, JStr(<<" ">>)),
      NoBody }

-----------------------------------------------------------------------------
(* The backing file: load_reflections and save_reflections *)

Missing == [kind |-> "missing", items |-> <<>>]
\* a file that exists and does not parse: empty, cut short, or garbage
Corrupt == [kind |-> "corrupt", items |-> <<>>]
Array(list) == [kind |-> "array", items |-> list]

\* what the filesystem does to a read: "ok", or "oserror" for an error that is
\* neither FileNotFoundError nor JSONDecodeError (PermissionError, UnicodeDecodeError)
ReadOutcomes == {"ok", "oserror"}
\* what the filesystem does to a write: "ok"; "openfails": open(.., "w") raises and
\* the file stays; "writefails": the file is truncated by open and the dump raises
WriteOutcomes == {"ok", "openfails", "writefails"}

\* a faulty variant of LoadRaises: without the except clause a file that does not parse raises
LoadRaisesNoExcept(f, rd) == f.kind = "corrupt" \/ (f.kind = "array" /\ rd = "oserror")

\* whether load_reflections() raises: only a file that exists is opened, and
\* JSONDecodeError and FileNotFoundError are caught
LoadRaises(f, rd) == f.kind # "missing" /\ rd = "oserror"

\* what load_reflections() returns when it does not raise
LoadReflections(f) == IF f.kind = "array" THEN f.items ELSE <<>>

\* the file after save_reflections(list)
SaveReflections(f, list, wr) ==
    CASE wr = "ok" -> Array(list)
      [] wr = "openfails" -> f
      [] wr = "writefails" -> Corrupt

\* a faulty variant of ListAppend: the entry is put first
ListPrepend(list, e) == <<e>> \o list

\* reflections.append(new_reflection)
ListAppend(list, e) == Append(list, e)

\* list.pop(index), a negative index counting from the end
PopIndex(list, index) == IF index < 0 THEN Len(list) + index + 1 ELSE index + 1

\* a faulty variant of ListPop: always the last element leaves
ListPopLast(list, index) ==
    [removed |-> list[Len(list)], rest |-> SubSeq(list, 1, Len(list) - 1)]

ListPop(list, index) ==
    [removed |-> list[PopIndex(list, index)],
     rest |-> SubSeq(list, 1, PopIndex(list, index) - 1)
              \o SubSeq(list, PopIndex(list, index) + 1, Len(list))]

\* a faulty variant of InRange: off by one at the upper end
InRangeLoose(index, n) == 0 <= index /\ index <= n

\* 0 <= index < len(reflections)
InRange(index, n) == 0 <= index /\ index < n

-----------------------------------------------------------------------------
(* add_reflection up to the entry it builds *)

\* request.get_json() of Werkzeug raises BadRequest on text that does not parse;
\* on a body that is no JSON it returns None before Werkzeug 2.1 and raises from
\* 2.1 on (strict). The handler's `except Exception` catches both.
GetJsonRaises(body, strict) ==
    body.kind = "malformed" \/ (body.kind = "none" /\ strict)

\* the Werkzeug versions that matter to a body: only one that is no JSON
Strictness(body) == IF body.kind = "none" THEN BOOLEAN ELSE {TRUE}

\* `not data`
NoData(body) == body.kind \in {"none", "falsy"}

\* data.get(key, default)
Get(v, default) == IF v.t = "absent" THEN JStr(default) ELSE v

Fail(code) == [status |-> code, entry |-> NoEntry]
Built(e) == [status |-> 0, entry |-> e]

\* a faulty variant of NameOrAnonymous: a blank name is kept
NameKept(s) == s

\* name if name else "Anonymous"
NameOrAnonymous(s) == IF s = <<>> THEN Anonymous ELSE s

\* the hardened variant, lines 79-90
ValidateHardened(body, d) ==
    LET name == Get(body.name, Anonymous)
        text == Get(body.reflection, <<>>)
    IN  IF name.t # "str" \/ text.t # "str" THEN Fail(500)      \* .strip() of a non-string
        ELSE IF Strip(text.s) = <<>> THEN Fail(400)
        ELSE Built(Entry(JStr(NameOrAnonymous(Strip(name.s))), DateStr(d), JStr(Strip(text.s))))

\* the basic variant, lines 74-78
BuildBasic(body, d) ==
    Built(Entry(Get(body.name, Anonymous), DateStr(d), Get(body.reflection, <<>>)))

\* status 0: new_reflection is built and the handler goes on to the store
Validate(v, body, d, strict) ==
    IF GetJsonRaises(body, strict) THEN Fail(500)
    ELSE IF NoData(body) THEN Fail(400)
    ELSE IF body.kind # "object" THEN Fail(500)                 \* data.get of a non-object
    ELSE IF v = "hardened" THEN ValidateHardened(body, d)
    ELSE BuildBasic(body, d)

-----------------------------------------------------------------------------
(* The synchronous server: one request at a time, each handler run to its end *)

\* wrote: save_reflections was called; fault: the filesystem raised; escaped: an
\* exception left the handler
Served(op, body, index, status, entry, list, wrote, fault, escaped) ==
    [op |-> op, body |-> body, index |-> index, status |-> status, entry |-> entry,
     list |-> list, pre |-> file, day |-> today, wrote |-> wrote, fault |-> fault,
     escaped |-> escaped]

NoRequest ==
    [op |-> "none", body |-> NoBody, index |-> 0, status |-> 0, entry |-> NoEntry,
     list |-> <<>>, pre |-> Missing, day |-> 1, wrote |-> FALSE, fault |-> FALSE,
     escaped |-> FALSE]

\* GET /api/reflections: no try/except, what load_reflections raises leaves the
\* handler and the framework answers 500
GetReflections(rd) ==
    /\ IF LoadRaises(file, rd)
       THEN last' = Served("list", NoBody, 0, 500, NoEntry, <<>>, FALSE, TRUE, TRUE)
       ELSE last' = Served("list", NoBody, 0, 200, NoEntry, LoadReflections(file), FALSE, FALSE, FALSE)
    /\ UNCHANGED <<variant, file, today>>
    /\ UNCHANGED concVars

\* POST /api/reflections
AddReflection(body, strict, rd, wr) ==
    LET v == Validate(variant, body, today, strict)
        list == ListAppend(LoadReflections(file), v.entry)
    IN  /\ IF v.status # 0
           THEN /\ last' = Served("create", body, 0, v.status, NoEntry, <<>>, FALSE, FALSE, FALSE)
                /\ file' = file
           ELSE IF LoadRaises(file, rd)
           THEN /\ last' = Served("create", body, 0, 500, NoEntry, <<>>, FALSE, TRUE, FALSE)
                /\ file' = file
           ELSE IF wr # "ok"
           THEN /\ last' = Served("create", body, 0, 500, NoEntry, <<>>, TRUE, TRUE, FALSE)
                /\ file' = SaveReflections(file, list, wr)
           ELSE /\ last' = Served("create", body, 0, 201, v.entry, <<>>, TRUE, FALSE, FALSE)
                /\ file' = SaveReflections(file, list, wr)
        /\ UNCHANGED <<variant, today>>
        /\ UNCHANGED concVars

\* @app.route("/api/reflections/<int:index>"): the int converter matches digits
\* only, a negative index is no route and is answered 404 without the handler
Routed(index) == index >= 0

\* list.pop(index) raises IndexError
PopRaises(list, index) == index >= Len(list) \/ index < 0 - Len(list)

\* DELETE /api/reflections/<index>
DeleteReflection(index, rd, wr) ==
    LET list == LoadReflections(file)
        popped == ListPop(list, index)
    IN  /\ IF ~Routed(index)
           THEN /\ last' = Served("delete", NoBody, index, 404, NoEntry, <<>>, FALSE, FALSE, FALSE)
                /\ file' = file
           ELSE IF LoadRaises(file, rd)
           THEN /\ last' = Served("delete", NoBody, index, 500, NoEntry, <<>>, FALSE, TRUE, FALSE)
                /\ file' = file
           ELSE IF ~InRange(index, Len(list))
           THEN /\ last' = Served("delete", NoBody, index, 404, NoEntry, <<>>, FALSE, FALSE, FALSE)
                /\ file' = file
           ELSE IF PopRaises(list, index)
           THEN /\ last' = Served("delete", NoBody, index, 500, NoEntry, <<>>, FALSE, FALSE, FALSE)
                /\ file' = file
           ELSE IF wr # "ok"
           THEN /\ last' = Served("delete", NoBody, index, 500, NoEntry, <<>>, TRUE, TRUE, FALSE)
                /\ file' = SaveReflections(file, popped.rest, wr)
           ELSE /\ last' = Served("delete", NoBody, index, 200, popped.removed, <<>>, TRUE, FALSE, FALSE)
                /\ file' = SaveReflections(file, popped.rest, wr)
        /\ UNCHANGED <<variant, today>>
        /\ UNCHANGED concVars

\* midnight passes
Tick ==
    /\ today < Len(Dates)
    /\ today' = today + 1
    /\ UNCHANGED <<variant, file, last>>
    /\ UNCHANGED concVars

Workers == {"A", "B"}

NoJob == [op |-> "none", index |-> 0, entry |-> NoEntry, status |-> 0]

InitConc ==
    /\ pc = [w \in Workers |-> "idle"]
    /\ job = [w \in Workers |-> NoJob]
    /\ reflections = [w \in Workers |-> <<>>]
    /\ loaded = [w \in Workers |-> <<>>]
    /\ dirty = [w \in Workers |-> FALSE]
    /\ lastWriter = "none"

Init ==
    /\ variant \in Variants
    /\ file \in {Missing, Corrupt, Array(<<>>)}
    /\ today = 1
    /\ last = NoRequest
    /\ InitConc

HasRoom(cap) == Len(LoadReflections(file)) < cap

\* the paths DELETE is asked for
Indexes(cap) == -1 .. cap

\* the store under a healthy filesystem, a few bodies, deep
Next ==
    \/ GetReflections("ok")
    \/ \E body \in StoreBodies : \E strict \in Strictness(body) :
          HasRoom(MaxStore) /\ AddReflection(body, strict, "ok", "ok")
    \/ \E index \in Indexes(MaxStore) : DeleteReflection(index, "ok", "ok")
    \/ Tick

Spec == Init /\ [][Next]_vars

\* the validation under a healthy filesystem, every body, shallow
NextInput ==
    \/ GetReflections("ok")
    \/ \E body \in ObjectBodies \cup BadBodies : \E strict \in Strictness(body) :
          HasRoom(MaxInputStore) /\ AddReflection(body, strict, "ok", "ok")
    \/ \E index \in Indexes(MaxInputStore) : DeleteReflection(index, "ok", "ok")
    \/ Tick

SpecInput == Init /\ [][NextInput]_vars

\* the store under a filesystem that may fail
NextFault ==
    \/ \E rd \in ReadOutcomes : GetReflections(rd)
    \/ \E body \in StoreBodies, rd \in ReadOutcomes, wr \in WriteOutcomes :
       \E strict \in Strictness(body) :
          HasRoom(MaxInputStore) /\ AddReflection(body, strict, rd, wr)
    \/ \E index \in Indexes(MaxInputStore), rd \in ReadOutcomes, wr \in WriteOutcomes :
          DeleteReflection(index, rd, wr)
    \/ Tick

SpecFault == Init /\ [][NextFault]_vars

-----------------------------------------------------------------------------
(* Concurrent workers of the host server: the handlers step by step.  The  *)
(* steps are the handler's accesses to the file; what a handler computes   *)
(* between two accesses belongs to the step that follows.                  *)

Other(w) == Workers \ {w}

Set(f, w, x) == [f EXCEPT ![w] = x]

\* a variant of MayLoad: a lock held from load to the end of save
MayLoadLocked(w) == \A o \in Other(w) : pc[o] \notin {"loaded", "opened"}

\* what stands between a handler and its load_reflections(): nothing
MayLoad(w) == TRUE

\* add_reflection up to new_reflection (lines 75-90)
Receive(w, body, strict) ==
    LET v == Validate(variant, body, today, strict)
    IN  /\ pc[w] = "idle"
        /\ IF v.status # 0
           THEN /\ pc' = Set(pc, w, "done")
                /\ job' = Set(job, w, [op |-> "create", index |-> 0, entry |-> NoEntry, status |-> v.status])
           ELSE /\ pc' = Set(pc, w, "validated")
                /\ job' = Set(job, w, [op |-> "create", index |-> 0, entry |-> v.entry, status |-> 0])
        /\ UNCHANGED <<reflections, loaded, dirty, lastWriter>>
        /\ UNCHANGED seqVars

\* delete_reflection is entered with the index of the path
ReceiveDelete(w, index) ==
    /\ pc[w] = "idle"
    /\ IF Routed(index)
       THEN /\ pc' = Set(pc, w, "validated")
            /\ job' = Set(job, w, [op |-> "delete", index |-> index, entry |-> NoEntry, status |-> 0])
       ELSE /\ pc' = Set(pc, w, "done")
            /\ job' = Set(job, w, [op |-> "delete", index |-> index, entry |-> NoEntry, status |-> 404])
    /\ UNCHANGED <<reflections, loaded, dirty, lastWriter>>
    /\ UNCHANGED seqVars

\* get_reflections: one read of the file
ListReflections(w) ==
    /\ pc[w] = "idle"
    /\ pc' = Set(pc, w, "done")
    /\ job' = Set(job, w, [op |-> "list", index |-> 0, entry |-> NoEntry, status |-> 200])
    /\ loaded' = Set(loaded, w, LoadReflections(file))
    /\ UNCHANGED <<reflections, dirty, lastWriter>>
    /\ UNCHANGED seqVars

\* reflections = load_reflections(), and the range check of delete_reflection
Load(w) ==
    /\ pc[w] = "validated"
    /\ MayLoad(w)
    /\ loaded' = Set(loaded, w, LoadReflections(file))
    /\ reflections' = Set(reflections, w, LoadReflections(file))
    /\ IF job[w].op = "delete" /\ ~InRange(job[w].index, Len(LoadReflections(file)))
       THEN /\ pc' = Set(pc, w, "done")
            /\ job' = Set(job, w, [job[w] EXCEPT !.status = 404])
       ELSE IF job[w].op = "delete" /\ PopRaises(LoadReflections(file), job[w].index)
       THEN /\ pc' = Set(pc, w, "done")
            /\ job' = Set(job, w, [job[w] EXCEPT !.status = 500])
       ELSE /\ pc' = Set(pc, w, "loaded")
            /\ job' = job
    /\ UNCHANGED <<dirty, lastWriter>>
    /\ UNCHANGED seqVars

\* append or pop, then save_reflections as far as open(DATA_FILE, "w"), which
\* empties the file: whoever holds it open now writes into an empty file
SaveOpen(w) ==
    /\ pc[w] = "loaded"
    /\ IF job[w].op = "create"
       THEN /\ reflections' = Set(reflections, w, ListAppend(reflections[w], job[w].entry))
            /\ job' = job
       ELSE /\ reflections' = Set(reflections, w, ListPop(reflections[w], job[w].index).rest)
            /\ job' = Set(job, w, [job[w] EXCEPT !.entry = ListPop(reflections[w], job[w].index).removed])
    /\ file' = Corrupt
    /\ dirty' = [o \in Workers |-> FALSE]
    /\ pc' = Set(pc, w, "opened")
    /\ UNCHANGED <<loaded, lastWriter>>
    /\ UNCHANGED <<variant, today, last>>

\* json.dump and the close that flushes it, at offset 0 of the file as it is:
\* over what another writer wrote since the open, the tail of a longer text stays
SaveWrite(w) ==
    /\ pc[w] = "opened"
    /\ file' \in IF dirty[w]
                 THEN {SaveReflections(file, reflections[w], "ok"), Corrupt}
                 ELSE {SaveReflections(file, reflections[w], "ok")}
    /\ dirty' = [o \in Workers |-> IF o # w /\ pc[o] = "opened" THEN TRUE ELSE dirty[o]]
    /\ lastWriter' = w
    /\ pc' = Set(pc, w, "done")
    /\ job' = Set(job, w, [job[w] EXCEPT !.status = IF job[w].op = "create" THEN 201 ELSE 200])
    /\ UNCHANGED <<reflections, loaded>>
    /\ UNCHANGED <<variant, today, last>>

\* the response is sent; the worker takes the next request
Respond(w) ==
    /\ pc[w] = "done"
    /\ pc' = Set(pc, w, "idle")
    /\ job' = Set(job, w, NoJob)
    /\ reflections' = Set(reflections, w, <<>>)
    /\ loaded' = Set(loaded, w, <<>>)
    /\ UNCHANGED <<dirty, lastWriter>>
    /\ UNCHANGED seqVars

ConcHasRoom(cap) ==
    /\ Len(LoadReflections(file)) < cap
    /\ \A w \in Workers : Len(reflections[w]) < cap

InitHardened == Init /\ variant = "hardened"

NextConc ==
    \E w \in Workers :
        \/ \E body \in StoreBodies : \E strict \in Strictness(body) :
              ConcHasRoom(MaxConcStore) /\ Receive(w, body, strict)
        \/ \E index \in Indexes(MaxConcStore) : ReceiveDelete(w, index)
        \/ ListReflections(w)
        \/ Load(w)
        \/ SaveOpen(w)
        \/ SaveWrite(w)
        \/ Respond(w)

SpecConc == InitHardened /\ [][NextConc]_vars

-----------------------------------------------------------------------------
(* Properties *)

Stored == LoadReflections(file)
Before == LoadReflections(last.pre)

Created == last.op = "create" /\ last.status = 201

\* t has no whitespace at either end
Trimmed(t) == t = <<>> \/ (t[1] \notin Whitespace /\ t[Len(t)] \notin Whitespace)

\* t is s without the whitespace at its two ends
IsTrimOf(t, s) ==
    /\ Trimmed(t)
    /\ \E i \in 0 .. Len(s) :
          /\ i + Len(t) <= Len(s)
          /\ \A k \in 1 .. Len(s) :
                IF k > i /\ k <= i + Len(t) THEN s[k] = t[k - i] ELSE s[k] \in Whitespace

\* C1: after an accepted create that no other writer interleaves, load_reflections()
\* returns the sequence stored before followed by the new entry: one longer, every
\* earlier entry at its position with its content
C1_AppendKeepsOrder ==
    Created =>
        /\ Len(Stored) = Len(Before) + 1
        /\ \A i \in 1 .. Len(Before) : Stored[i] = Before[i]
        /\ Stored[Len(Stored)] = last.entry

C1_Witness ==
    /\ Created
    /\ Len(Before) = 2
    /\ Before[1] # Before[2]
    /\ last.entry # Before[1]
    /\ last.entry # Before[2]

\* C2: a DELETE of a position p with 0 <= p < len(S), no writer interleaving, answers
\* 200 with the entry that was S[p] and leaves S without that one element: the
\* entries before p stay, the entries after p move down by one
C2_DeleteRemovesOne ==
    (last.op = "delete" /\ 0 <= last.index /\ last.index < Len(Before)) =>
        /\ last.status = 200
        /\ last.entry = Before[last.index + 1]
        /\ Len(Stored) = Len(Before) - 1
        /\ \A i \in 1 .. Len(Stored) :
              Stored[i] = IF i <= last.index THEN Before[i] ELSE Before[i + 1]

C2_Witness ==
    /\ last.op = "delete"
    /\ last.index = 1
    /\ last.status = 200
    /\ Len(Before) = 3
    /\ Before[1] # Before[2]
    /\ Before[2] # Before[3]
    /\ Before[1] # Before[3]

\* C3: a DELETE of a position that is negative or >= len(S), the empty store
\* included, answers 404, writes nothing and leaves the stored sequence as it was
C3_DeleteOutOfRange ==
    (last.op = "delete" /\ (last.index < 0 \/ last.index >= Len(Before))) =>
        /\ last.status = 404
        /\ ~last.wrote
        /\ file = last.pre

C3_Witness ==
    /\ last.op = "delete"
    /\ last.index = Len(Before)
    /\ Len(Before) >= 1
    /\ last.status = 404

BlankField(v) == v.t = "absent" \/ (v.t = "str" /\ \A k \in 1 .. Len(v.s) : v.s[k] \in Whitespace)

\* C4: in the hardened variant a create whose reflection is absent, empty or only
\* whitespace answers 400 whatever the name field is, and the store is unchanged
C4_BlankReflectionIs400 ==
    (variant = "hardened" /\ last.op = "create" /\ last.body.kind = "object"
        /\ BlankField(last.body.reflection)) =>
        /\ last.status = 400
        /\ ~last.wrote
        /\ file = last.pre

\* C5: a create whose body is missing, does not parse, or is no JSON object answers
\* 400 and leaves the store unchanged
C5_BadBodyIs400 ==
    (last.op = "create" /\ last.body.kind \in {"none", "malformed", "falsy", "nonobject"}) =>
        /\ last.status = 400
        /\ ~last.wrote
        /\ file = last.pre

\* the entry of the response is the entry appended, and its date is the server's
ReturnedIsAppended ==
    /\ Stored # <<>>
    /\ Stored[Len(Stored)] = last.entry
    /\ DOMAIN last.entry = {"name", "date", "reflection"}
    /\ last.entry.date = JStr(Dates[last.day])

\* name and reflection by the rules stated: both trimmed, "Anonymous" for a name
\* that is absent or blank
StatedFields ==
    /\ IF BlankField(last.body.name)
       THEN last.entry.name = JStr(Anonymous)
       ELSE /\ last.body.name.t = "str"
            /\ last.entry.name.t = "str"
            /\ IsTrimOf(last.entry.name.s, last.body.name.s)
    /\ IF last.body.reflection.t = "absent"
       THEN last.entry.reflection = JStr(<<>>)
       ELSE /\ last.body.reflection.t = "str"
            /\ last.entry.reflection.t = "str"
            /\ IsTrimOf(last.entry.reflection.s, last.body.reflection.s)

\* name and reflection as src/flask_app.py takes them from the body
BasicFields ==
    /\ last.entry.name =
          IF last.body.name.t = "absent" THEN JStr(Anonymous) ELSE last.body.name
    /\ last.entry.reflection =
          IF last.body.reflection.t = "absent" THEN JStr(<<>>) ELSE last.body.reflection

\* C6 as stated: every accepted create returns the entry it appended, with name the
\* trimmed name of the caller or "Anonymous" when absent or blank, reflection the
\* trimmed text, and date the server's whatever the caller sent
C6_AsStated == Created => (ReturnedIsAppended /\ StatedFields)

\* C6 as amended: every accepted create returns the entry it appended, with the
\* server's date; in the hardened variant name and reflection are trimmed and a blank
\* or absent name is "Anonymous"; in the basic variant name and reflection are stored
\* as sent, "Anonymous" and "" standing for an absent key only
C6_EntryOfAcceptedCreate ==
    Created =>
        /\ ReturnedIsAppended
        /\ variant = "hardened" => StatedFields
        /\ variant = "basic" => BasicFields

C6_Witness ==
    /\ Created
    /\ variant = "hardened"
    /\ last.body.name = JStr(<<" ">>)
    /\ last.body.reflection = JStr(<<"\t", "a", " ", "b", "\n">>)
    /\ last.body.date = CallerDate
    /\ last.day = 2
    /\ last.entry = Entry(JStr(Anonymous), JStr(Dates[2]), JStr(<<"a", " ", "b">>))

\* C7: with the file missing, or holding text that is no JSON, load_reflections()
\* returns the empty sequence and does not fail: a list answers 200 with an empty
\* array, a DELETE of any position answers 404, and neither touches the file
C7_MissingOrCorruptIsEmpty ==
    (last.pre.kind \in {"missing", "corrupt"}) =>
        /\ Before = <<>>
        /\ last.op = "list" => (last.status = 200 /\ last.list = <<>> /\ ~last.escaped)
        /\ last.op = "delete" => last.status = 404
        /\ last.op \in {"list", "delete"} => (~last.wrote /\ file = last.pre)

C7_Witness ==
    /\ last.pre.kind = "corrupt"
    /\ last.op = "list"
    /\ last.status = 200

\* C9: every error raised while a list, create or delete is served, a failing read or
\* write of the file included, is handled in the handler: create and delete answer
\* 500, and no exception leaves a handler
C9_ErrorsHandledInHandler ==
    /\ ~last.escaped
    /\ (last.fault /\ last.op \in {"create", "delete"}) => last.status = 500

Succeeded(w) ==
    /\ pc[w] = "done"
    /\ job[w].op \in {"create", "delete"}
    /\ job[w].status \in {200, 201}

\* what the request of w alone makes of the sequence it loaded
OwnEffect(w) ==
    IF job[w].op = "create"
    THEN Append(loaded[w], job[w].entry)
    ELSE [i \in 1 .. Len(loaded[w]) - 1 |->
             IF i <= job[w].index THEN loaded[w][i] ELSE loaded[w][i + 1]]

\* C8: load-then-save is not atomic. Nothing holds a handler back from loading while
\* another is between its load and its save, and the request that saves last leaves
\* in the file what it made of its own load alone: what another request saved
\* after that load is lost, though both answered success
C8_LastSaveWins ==
    /\ \A w \in Workers : pc[w] = "validated" => ENABLED Load(w)
    /\ \A w \in Workers :
          (Succeeded(w) /\ lastWriter = w /\ file.kind = "array") => Stored = OwnEffect(w)

\* load(A), load(B), save(A), save(B): both created, the store holds B's entry only
C8_Witness ==
    /\ Succeeded("A") /\ Succeeded("B")
    /\ job["A"].op = "create" /\ job["B"].op = "create"
    /\ loaded["A"] = loaded["B"]
    /\ Len(loaded["A"]) = 1
    /\ job["A"].entry # job["B"].entry
    /\ job["A"].entry # loaded["A"][1]
    /\ lastWriter = "B"
    /\ Stored = Append(loaded["B"], job["B"].entry)

NonBlankTrimmed(v) == v.t = "str" /\ v.s # <<>> /\ Trimmed(v.s)

====
